---- MODULE Spec2Model ----
(***************************************************************************)
(* Fungible-token ledger of contracts/ft (lib.rs, internal.rs).            *)
(*                                                                         *)
(* One call of the contract is one action.  The body of a call is          *)
(* computed by operators that thread a call context through the            *)
(* statements of the source in their order: the working copy of the        *)
(* ledger (accounts, total_supply), the status of the call (OK or the      *)
(* panic message) and the log of the guards evaluated and the writes       *)
(* made so far.  env::panic ends the call; the runtime then discards       *)
(* every write the call made, so the ledger the next call sees is the one  *)
(* the panicking call started from.                                        *)
(***************************************************************************)
EXTENDS Integers, Sequences, FiniteSets, TLC

VARIABLES owner_id, accounts, total_supply, last, before, first

vars == <<owner_id, accounts, total_supply, last, before, first>>

(* ---------------------------- bounds ---------------------------------- *)

\* Largest value of the Balance type (u128::MAX in the source), scaled down.
MaxBalance == 2

(* ---------------------------- data ------------------------------------ *)

Balance == 0..MaxBalance

AccountIds == {"dex.near", "alice.near", "bob.near"}

\* The owner the contract is constructed with (create_contract of the tests).
Owners == {"dex.near"}

\* The callers of the owner-only methods: the owner and another account.
Callers == {"dex.near", "alice.near"}

Memos == {"none", "bonus"}

None == -1

NoAccount == ""

OK == "ok"

\* The panic messages of the source, under the names of the error kinds.
NotOwner == "It is a owner only method"
InvalidAmount == "The amount should be a positive number"
SameAccount == "Sender and receiver should be different"
UnregisteredAccount == "The account is not registered"
BalanceOverflow == "Balance overflow"
InsufficientBalance == "The account doesn't have enough balance"
SupplyOverflow == "Total Supply Overflow"

TOTAL_SUPPLY == "total_supply"

(* ---------------------- integers and the map -------------------------- *)

\* Mutant: an addition that wraps around instead of failing.
checked_add_wrapping(a, b) == (a + b) % (MaxBalance + 1)

checked_add(a, b) == IF a + b > MaxBalance THEN None ELSE a + b

\* Mutant: a subtraction that saturates at 0 instead of failing.
checked_sub_saturating(a, b) == IF a - b < 0 THEN 0 ELSE a - b

checked_sub(a, b) == IF a - b < 0 THEN None ELSE a - b

\* Mutant: a missing entry reads as balance 0.
get_or_zero(map, key) == IF key \in DOMAIN map THEN map[key] ELSE 0

\* LookupMap::get
get(map, key) == IF key \in DOMAIN map THEN map[key] ELSE None

\* Mutant: the key is ignored and the value lands in every entry.
insert_everywhere(map, key, value) ==
    [k \in (DOMAIN map) \cup {key} |-> value]

\* LookupMap::insert
insert(map, key, value) ==
    [k \in (DOMAIN map) \cup {key} |-> IF k = key THEN value ELSE map[k]]

\* Mutant: the entry is left in the map.
remove_nothing(map, key) == map

\* LookupMap::remove
remove(map, key) == [k \in (DOMAIN map) \ {key} |-> map[k]]

EmptyMap == [k \in {} |-> 0]

RECURSIVE SumOver(_, _)
SumOver(map, keys) ==
    IF keys = {} THEN 0
    ELSE LET k == CHOOSE x \in keys : TRUE
         IN map[k] + SumOver(map, keys \ {k})

SumOfBalances(map) == SumOver(map, DOMAIN map)

(* ------------------------- the call context --------------------------- *)

Guard(msg) == [ev |-> "guard", of |-> msg]

Write(key) == [ev |-> "write", of |-> key]

\* The context a call starts with: the persisted ledger, nothing logged.
Enter ==
    [accounts |-> accounts, total_supply |-> total_supply,
     status |-> OK, log |-> <<>>]

\* Mutant: the call ends with the message but its writes stay.
env_panic_keeps_writes(c, msg) == [c EXCEPT !.status = msg]

\* env::panic: the call ends with the message, its writes are discarded.
env_panic(c, msg) ==
    [c EXCEPT !.accounts = accounts, !.total_supply = total_supply,
              !.status = msg]

\* require!(a, b)
require(c, a, b) ==
    IF c.status # OK THEN c
    ELSE LET c1 == [c EXCEPT !.log = Append(@, Guard(b))]
         IN IF ~a THEN env_panic(c1, b) ELSE c1

(* ----------------------------- internal.rs ---------------------------- *)

\* Mutant: the debit takes the amount out of the supply as well.
internal_withdraw_burns(c, account_id, amount) ==
    IF c.status # OK THEN c
    ELSE LET balance == get(c.accounts, account_id)
             c1 == [c EXCEPT !.log = Append(@, Guard(UnregisteredAccount))]
         IN IF balance = None THEN env_panic(c1, UnregisteredAccount)
            ELSE LET new_balance == checked_sub(balance, amount)
                     c2 == [c1 EXCEPT !.log = Append(@, Guard(InsufficientBalance))]
                 IN IF new_balance # None
                    THEN [c2 EXCEPT
                            !.accounts = insert(@, account_id, new_balance),
                            !.total_supply = IF @ >= amount THEN @ - amount ELSE 0,
                            !.log = Append(@, Write(account_id))]
                    ELSE env_panic(c2, InsufficientBalance)

\* Mutant: an entry whose balance reaches 0 is removed.
internal_withdraw_removes_empty(c, account_id, amount) ==
    IF c.status # OK THEN c
    ELSE LET balance == get(c.accounts, account_id)
             c1 == [c EXCEPT !.log = Append(@, Guard(UnregisteredAccount))]
         IN IF balance = None THEN env_panic(c1, UnregisteredAccount)
            ELSE LET new_balance == checked_sub(balance, amount)
                     c2 == [c1 EXCEPT !.log = Append(@, Guard(InsufficientBalance))]
                 IN IF new_balance # None
                    THEN [c2 EXCEPT
                            !.accounts = IF new_balance = 0
                                         THEN remove(@, account_id)
                                         ELSE insert(@, account_id, new_balance),
                            !.log = Append(@, Write(account_id))]
                    ELSE env_panic(c2, InsufficientBalance)

\* Mutant: the debit checks the balance but does not store the new one.
internal_withdraw_no_debit(c, account_id, amount) ==
    IF c.status # OK THEN c
    ELSE LET balance == get(c.accounts, account_id)
             c1 == [c EXCEPT !.log = Append(@, Guard(UnregisteredAccount))]
         IN IF balance = None THEN env_panic(c1, UnregisteredAccount)
            ELSE LET new_balance == checked_sub(balance, amount)
                     c2 == [c1 EXCEPT !.log = Append(@, Guard(InsufficientBalance))]
                 IN IF new_balance # None
                    THEN [c2 EXCEPT !.log = Append(@, Write(account_id))]
                    ELSE env_panic(c2, InsufficientBalance)

\* Mutant: the credit stores the amount instead of the new balance.
internal_deposit_overwrites(c, account_id, amount) ==
    IF c.status # OK THEN c
    ELSE LET balance == get(c.accounts, account_id)
             c1 == [c EXCEPT !.log = Append(@, Guard(UnregisteredAccount))]
         IN IF balance = None THEN env_panic(c1, UnregisteredAccount)
            ELSE LET new_balance == checked_add(balance, amount)
                     c2 == [c1 EXCEPT !.log = Append(@, Guard(BalanceOverflow))]
                 IN IF new_balance # None
                    THEN [c2 EXCEPT
                            !.accounts = insert(@, account_id, amount),
                            !.log = Append(@, Write(account_id))]
                    ELSE env_panic(c2, BalanceOverflow)

internal_deposit(c, account_id, amount) ==
    IF c.status # OK THEN c
    ELSE LET balance == get(c.accounts, account_id)
             c1 == [c EXCEPT !.log = Append(@, Guard(UnregisteredAccount))]
         IN IF balance = None THEN env_panic(c1, UnregisteredAccount)
            ELSE LET new_balance == checked_add(balance, amount)
                     c2 == [c1 EXCEPT !.log = Append(@, Guard(BalanceOverflow))]
                 IN IF new_balance # None
                    THEN [c2 EXCEPT
                            !.accounts = insert(@, account_id, new_balance),
                            !.log = Append(@, Write(account_id))]
                    ELSE env_panic(c2, BalanceOverflow)

internal_withdraw(c, account_id, amount) ==
    IF c.status # OK THEN c
    ELSE LET balance == get(c.accounts, account_id)
             c1 == [c EXCEPT !.log = Append(@, Guard(UnregisteredAccount))]
         IN IF balance = None THEN env_panic(c1, UnregisteredAccount)
            ELSE LET new_balance == checked_sub(balance, amount)
                     c2 == [c1 EXCEPT !.log = Append(@, Guard(InsufficientBalance))]
                 IN IF new_balance # None
                    THEN [c2 EXCEPT
                            !.accounts = insert(@, account_id, new_balance),
                            !.log = Append(@, Write(account_id))]
                    ELSE env_panic(c2, InsufficientBalance)

assert_owner(c, predecessor_account_id) ==
    require(c, predecessor_account_id = owner_id, NotOwner)

\* Mutant: the amount is checked before the parties.
internal_transfer_amount_first(c, sender_id, receiver_id, amount, memo) ==
    LET c1 == require(c, amount > 0, InvalidAmount)
        c2 == require(c1, sender_id # receiver_id, SameAccount)
        c3 == internal_withdraw(c2, sender_id, amount)
    IN internal_deposit(c3, receiver_id, amount)

\* Mutant: the amount is not checked.
internal_transfer_any_amount(c, sender_id, receiver_id, amount, memo) ==
    LET c1 == require(c, sender_id # receiver_id, SameAccount)
        c3 == internal_withdraw(c1, sender_id, amount)
    IN internal_deposit(c3, receiver_id, amount)

\* Mutant: a transfer whose receiver already holds the amount is taken
\* for a repetition and dropped.
internal_transfer_dedup(c, sender_id, receiver_id, amount, memo) ==
    LET c1 == require(c, sender_id # receiver_id, SameAccount)
        c2 == require(c1, amount > 0, InvalidAmount)
        c3 == internal_withdraw(c2, sender_id, amount)
    IN IF c2.status = OK /\ get(c2.accounts, receiver_id) = amount
       THEN c2
       ELSE internal_deposit(c3, receiver_id, amount)

internal_transfer(c, sender_id, receiver_id, amount, memo) ==
    LET c1 == require(c, sender_id # receiver_id, SameAccount)
        c2 == require(c1, amount > 0, InvalidAmount)
        c3 == internal_withdraw(c2, sender_id, amount)
    IN internal_deposit(c3, receiver_id, amount)

(* ------------------------------- lib.rs ------------------------------- *)

TmpAccountId == "aaaaaaaaaaaaaaaaaaaaaaaaaaaaaaaaaaaaaaaaaaaaaaaaaaaaaaaaaaaaaaaa"

\* Contract::new: the accounts map it returns.
new_accounts(owner, supply) ==
    LET a1 == insert(EmptyMap, TmpAccountId, 0)
        a2 == remove(a1, TmpAccountId)
    IN insert(a2, owner, supply)

\* Mutant: the caller is checked after the new total is stored.
mint_owner_check_late(c, predecessor_account_id, amount) ==
    LET new_total_supply == checked_add(c.total_supply, amount)
        g == [c EXCEPT !.log = Append(@, Guard(SupplyOverflow))]
        c1 == IF new_total_supply # None
              THEN [g EXCEPT !.total_supply = new_total_supply,
                             !.log = Append(@, Write(TOTAL_SUPPLY))]
              ELSE env_panic(g, SupplyOverflow)
        c2 == assert_owner(c1, predecessor_account_id)
    IN internal_deposit(c2, owner_id, amount)

\* Mutant: the new total wraps around instead of failing.
mint_wrapping(c, predecessor_account_id, amount) ==
    LET c1 == assert_owner(c, predecessor_account_id)
        new_total_supply == (c1.total_supply + amount) % (MaxBalance + 1)
        c2 == IF c1.status # OK THEN c1
              ELSE LET g == [c1 EXCEPT !.log = Append(@, Guard(SupplyOverflow))]
                   IN [g EXCEPT !.total_supply = new_total_supply,
                                !.log = Append(@, Write(TOTAL_SUPPLY))]
    IN internal_deposit(c2, owner_id, amount)

\* Mutant: the supply is checked but the new total is not stored.
mint_supply_not_stored(c, predecessor_account_id, amount) ==
    LET c1 == assert_owner(c, predecessor_account_id)
        new_total_supply == checked_add(c1.total_supply, amount)
        c2 == IF c1.status # OK THEN c1
              ELSE LET g == [c1 EXCEPT !.log = Append(@, Guard(SupplyOverflow))]
                   IN IF new_total_supply # None
                      THEN g
                      ELSE env_panic(g, SupplyOverflow)
    IN internal_deposit(c2, owner_id, amount)

\* Mutant: the owner is credited one unit less than the supply grows.
mint_credit_short(c, predecessor_account_id, amount) ==
    LET c1 == assert_owner(c, predecessor_account_id)
        new_total_supply == checked_add(c1.total_supply, amount)
        c2 == IF c1.status # OK THEN c1
              ELSE LET g == [c1 EXCEPT !.log = Append(@, Guard(SupplyOverflow))]
                   IN IF new_total_supply # None
                      THEN [g EXCEPT !.total_supply = new_total_supply,
                                     !.log = Append(@, Write(TOTAL_SUPPLY))]
                      ELSE env_panic(g, SupplyOverflow)
    IN internal_deposit(c2, owner_id, IF amount > 0 THEN amount - 1 ELSE 0)

mint(c, predecessor_account_id, amount) ==
    LET c1 == assert_owner(c, predecessor_account_id)
        new_total_supply == checked_add(c1.total_supply, amount)
        c2 == IF c1.status # OK THEN c1
              ELSE LET g == [c1 EXCEPT !.log = Append(@, Guard(SupplyOverflow))]
                   IN IF new_total_supply # None
                      THEN [g EXCEPT !.total_supply = new_total_supply,
                                     !.log = Append(@, Write(TOTAL_SUPPLY))]
                      ELSE env_panic(g, SupplyOverflow)
    IN internal_deposit(c2, owner_id, amount)

\* Mutant: a reward to the owner is refused as a transfer to oneself.
ft_transfer_player_reward_distinct(c, predecessor_account_id, player_id, amount, feat) ==
    LET c1 == assert_owner(c, predecessor_account_id)
        c2 == internal_transfer(c1, owner_id, player_id, amount, feat)
    IN c2

\* Mutant: the amount is checked before the caller.
ft_transfer_player_reward_amount_first(c, predecessor_account_id, player_id, amount, feat) ==
    LET c1 == require(c, amount > 0, InvalidAmount)
        c2 == assert_owner(c1, predecessor_account_id)
        c3 == internal_withdraw(c2, owner_id, amount)
    IN internal_deposit(c3, player_id, amount)

\* Mutant: a reward with a memo pays one unit less.
ft_transfer_player_reward_memo_fee(c, predecessor_account_id, player_id, amount, feat) ==
    LET c1 == assert_owner(c, predecessor_account_id)
        c2 == require(c1, amount > 0, InvalidAmount)
        paid == IF feat = "none" THEN amount ELSE amount - 1
        c3 == internal_withdraw(c2, owner_id, paid)
    IN internal_deposit(c3, player_id, paid)

ft_transfer_player_reward(c, predecessor_account_id, player_id, amount, feat) ==
    LET c1 == assert_owner(c, predecessor_account_id)
        c2 == require(c1, amount > 0, InvalidAmount)
        c3 == internal_withdraw(c2, owner_id, amount)
    IN internal_deposit(c3, player_id, amount)

\* The two views of the core: a missing entry reads as balance 0.
ft_balance_of(account_id) ==
    LET balance == get(accounts, account_id)
    IN IF balance = None THEN 0 ELSE balance

ft_total_supply == total_supply

(* ------------------------------ the calls ----------------------------- *)

Call(op, caller, from, to, amount, memo, c) ==
    [op |-> op, caller |-> caller, from |-> from, to |-> to,
     amount |-> amount, memo |-> memo, status |-> c.status, log |-> c.log]

\* The end of a call: what the call left in its context is persisted.
Return(c) ==
    /\ accounts' = c.accounts
    /\ total_supply' = c.total_supply
    /\ UNCHANGED owner_id

Ledger == [accounts |-> accounts, total_supply |-> total_supply]

NoLedger == [accounts |-> EmptyMap, total_supply |-> None]

\* The call being made has the operation and the arguments of the last one.
SameArgs(x, y) ==
    /\ x.op = y.op
    /\ x.caller = y.caller
    /\ x.from = y.from
    /\ x.to = y.to
    /\ x.amount = y.amount
    /\ x.memo = y.memo

\* History of the calls: the ledger the call started from and, when the
\* call is a transfer that repeats the call before it, the ledger that one
\* started from.
Remember ==
    /\ before' = Ledger
    /\ first' = IF last'.op = "Transfer" /\ SameArgs(last', last)
                THEN before ELSE NoLedger

Init ==
    \E owner \in Owners, supply \in Balance :
        /\ owner_id = owner
        /\ accounts = new_accounts(owner, supply)
        /\ total_supply = supply
        /\ last = [op |-> "new", caller |-> NoAccount, from |-> NoAccount,
                   to |-> owner, amount |-> supply, memo |-> "none",
                   status |-> OK, log |-> <<>>]
        /\ before = NoLedger
        /\ first = NoLedger

Mint ==
    \E caller \in Callers, amount \in Balance :
        LET c == mint(Enter, caller, amount)
        IN /\ Return(c)
           /\ last' = Call("Mint", caller, NoAccount, NoAccount, amount, "none", c)
           /\ Remember

RewardTransfer ==
    \E caller \in Callers, player_id \in AccountIds,
       amount \in Balance, feat \in Memos :
        LET c == ft_transfer_player_reward(Enter, caller, player_id, amount, feat)
        IN /\ Return(c)
           /\ last' = Call("RewardTransfer", caller, NoAccount, player_id,
                           amount, feat, c)
           /\ Remember

Transfer ==
    \E sender_id \in AccountIds, receiver_id \in AccountIds,
       amount \in Balance, memo \in {"none"} :
        LET c == internal_transfer(Enter, sender_id, receiver_id, amount, memo)
        IN /\ Return(c)
           /\ last' = Call("Transfer", NoAccount, sender_id, receiver_id,
                           amount, memo, c)
           /\ Remember

Deposit ==
    \E account_id \in AccountIds, amount \in Balance :
        LET c == internal_deposit(Enter, account_id, amount)
        IN /\ Return(c)
           /\ last' = Call("Deposit", NoAccount, NoAccount, account_id,
                           amount, "none", c)
           /\ Remember

Withdraw ==
    \E account_id \in AccountIds, amount \in Balance :
        LET c == internal_withdraw(Enter, account_id, amount)
        IN /\ Return(c)
           /\ last' = Call("Withdraw", NoAccount, account_id, NoAccount,
                           amount, "none", c)
           /\ Remember

\* Registration by the storage manager: a new entry with balance 0.
Register ==
    \E account_id \in AccountIds :
        /\ account_id \notin DOMAIN accounts
        /\ accounts' = insert(accounts, account_id, 0)
        /\ UNCHANGED <<owner_id, total_supply>>
        /\ last' = [op |-> "Register", caller |-> account_id,
                    from |-> NoAccount, to |-> account_id, amount |-> 0,
                    memo |-> "none", status |-> OK, log |-> <<>>]
        /\ Remember

\* The contract as its callers see it.
Next == Mint \/ RewardTransfer \/ Transfer \/ Register

Spec == Init /\ [][Next]_vars

\* The ledger with its two primitives called on their own as well.
NextLedger == Mint \/ RewardTransfer \/ Transfer \/ Register \/ Deposit \/ Withdraw

SpecLedger == Init /\ [][NextLedger]_vars

TypeOK ==
    /\ owner_id \in AccountIds
    /\ DOMAIN accounts \subseteq AccountIds
    /\ \A a \in DOMAIN accounts : accounts[a] \in Balance
    /\ total_supply \in Balance

(* ----------------------------- properties ----------------------------- *)

Registered(a) == a \in DOMAIN accounts

\* The call just made left the persisted state as it was.
StateUnchanged ==
    /\ accounts' = accounts
    /\ total_supply' = total_supply
    /\ owner_id' = owner_id

\* C1: after construction and after every Mint, Transfer and RewardTransfer
\* call, completed or aborted, total_supply equals the sum of the balances
\* of all registered accounts.
C1_Conservation == total_supply = SumOfBalances(accounts)

C1_Witness ==
    /\ last.op \in {"Transfer", "RewardTransfer"}
    /\ last.status = OK
    /\ Cardinality({a \in DOMAIN accounts : accounts[a] > 0}) >= 2
    /\ total_supply = MaxBalance

\* C2: a Transfer between distinct parties of a positive amount the
\* registered sender can pay, whose receiver is unregistered or whose
\* receiver's balance would overflow, aborts, and the state after the abort
\* (every balance, the sender's included, and total_supply) is the state
\* before the call.
C2_TransferCreditFailureAtomic ==
    [][(/\ last'.op = "Transfer"
        /\ last'.from # last'.to
        /\ last'.amount > 0
        /\ Registered(last'.from)
        /\ last'.amount <= accounts[last'.from]
        /\ \/ ~Registered(last'.to)
           \/ accounts[last'.to] + last'.amount > MaxBalance)
       => /\ last'.status =
                IF Registered(last'.to) THEN BalanceOverflow
                ELSE UnregisteredAccount
          /\ StateUnchanged]_vars

\* The credit failed after the debit had been written in the call.
C2_Witness ==
    /\ last.op = "Transfer"
    /\ last.status \in {UnregisteredAccount, BalanceOverflow}
    /\ \E i \in 1..Len(last.log) : last.log[i] = Write(last.from)
    /\ accounts[last.from] >= last.amount

\* C3: for registered accounts A # B and an amount a with
\* 0 < a <= balance(A), Transfer(A, B, a) completes; afterwards balance(A)
\* is a lower, balance(B) is a higher and total_supply is unchanged.
C3_TransferEffect ==
    [][(/\ last'.op = "Transfer"
        /\ last'.from # last'.to
        /\ Registered(last'.from)
        /\ Registered(last'.to)
        /\ 0 < last'.amount
        /\ last'.amount <= accounts[last'.from])
       => /\ last'.status = OK
          /\ accounts'[last'.from] = accounts[last'.from] - last'.amount
          /\ accounts'[last'.to] = accounts[last'.to] + last'.amount
          /\ total_supply' = total_supply]_vars

C3_Witness ==
    /\ last.op = "Transfer"
    /\ last.status = OK
    /\ last.amount > 0
    /\ accounts[last.to] > last.amount

\* C4: for every amount a, 0 included, with total_supply + a within the
\* balance type, Mint(a) by the owner completes; afterwards total_supply is
\* a higher and balance(owner) is a higher.
C4_MintEffect ==
    [][(/\ last'.op = "Mint"
        /\ last'.caller = owner_id
        /\ total_supply + last'.amount <= MaxBalance)
       => /\ last'.status = OK
          /\ total_supply' = total_supply + last'.amount
          /\ accounts'[owner_id] = accounts[owner_id] + last'.amount
          /\ total_supply' - total_supply
               = accounts'[owner_id] - accounts[owner_id]]_vars

C4_Witness ==
    /\ last.op = "Mint"
    /\ last.status = OK
    /\ last.amount > 0
    /\ accounts[owner_id] >= last.amount
    /\ total_supply > accounts[owner_id]

\* C5: Mint and RewardTransfer called by anyone but the stored owner fail
\* with NotOwner and leave every balance, total_supply and the owner
\* unchanged, whatever the amount and the recipient: for amount 0 and for
\* an overflowing amount the error is NotOwner as well.
C5_OwnershipGuard ==
    [][(/\ last'.op \in {"Mint", "RewardTransfer"}
        /\ last'.caller # owner_id)
       => /\ last'.status = NotOwner
          /\ StateUnchanged]_vars

C5_Witness ==
    /\ last.caller # owner_id
    /\ last.status = NotOwner
    /\ \/ last.op = "RewardTransfer" /\ last.amount = 0
       \/ last.op = "Mint" /\ total_supply + last.amount > MaxBalance

\* C6: for a registered recipient R other than the owner and an amount a
\* with 0 < a <= balance(owner), RewardTransfer(R, a, memo) by the owner
\* completes; afterwards balance(owner) is a lower, balance(R) is a higher,
\* total_supply is unchanged, and the state reached is the one every other
\* memo value reaches.
C6_RewardTransferEffect ==
    [][(/\ last'.op = "RewardTransfer"
        /\ last'.caller = owner_id
        /\ last'.to # owner_id
        /\ Registered(last'.to)
        /\ 0 < last'.amount
        /\ last'.amount <= accounts[owner_id])
       => /\ last'.status = OK
          /\ accounts'[owner_id] = accounts[owner_id] - last'.amount
          /\ accounts'[last'.to] = accounts[last'.to] + last'.amount
          /\ total_supply' = total_supply
          /\ \A feat \in Memos :
                LET c == ft_transfer_player_reward(Enter, last'.caller,
                             last'.to, last'.amount, feat)
                IN /\ c.status = last'.status
                   /\ c.accounts = accounts'
                   /\ c.total_supply = total_supply']_vars

C6_Witness ==
    /\ last.op = "RewardTransfer"
    /\ last.status = OK
    /\ last.memo = "bonus"
    /\ last.to # owner_id
    /\ accounts[last.to] >= last.amount
    /\ last.amount > 0

\* C7: for a registered account A and an amount above balance(A),
\* Withdraw(A, amount) fails with InsufficientBalance and leaves balance(A)
\* and all other state unchanged; so do Transfer from A and RewardTransfer
\* by the owner when the amount is above the balance debited.
C7_InsufficientBalance ==
    [][(\/ /\ last'.op = "Withdraw"
           /\ Registered(last'.from)
           /\ last'.amount > accounts[last'.from]
        \/ /\ last'.op = "Transfer"
           /\ last'.from # last'.to
           /\ Registered(last'.from)
           /\ last'.amount > accounts[last'.from]
        \/ /\ last'.op = "RewardTransfer"
           /\ last'.caller = owner_id
           /\ last'.amount > accounts[owner_id])
       => /\ last'.status = InsufficientBalance
          /\ StateUnchanged]_vars

\* Withdraw(A, balance(A) + 1) was refused.
C7_Witness ==
    /\ last.op = "Withdraw"
    /\ last.status = InsufficientBalance
    /\ Registered(last.from)
    /\ last.amount = accounts[last.from] + 1
    /\ accounts[last.from] > 0

\* C8: Deposit or Withdraw on an account without an entry in the store
\* fails with UnregisteredAccount for every amount, 0 included, and changes
\* nothing: it creates no entry for the account.
C8_RegistrationGuard ==
    [][(/\ last'.op \in {"Deposit", "Withdraw"}
        /\ ~Registered(IF last'.op = "Deposit" THEN last'.to ELSE last'.from))
       => /\ last'.status = UnregisteredAccount
          /\ StateUnchanged
          /\ DOMAIN accounts' = DOMAIN accounts]_vars

C8_Witness ==
    /\ last.op \in {"Deposit", "Withdraw"}
    /\ last.status = UnregisteredAccount
    /\ last.amount = 0
    /\ ~Registered(IF last.op = "Deposit" THEN last.to ELSE last.from)

\* C9: Transfer(A, A, a) fails with SameAccount and changes no state for
\* every account A and amount a: also when a = 0, when a > balance(A) and
\* when A is unregistered.
C9_DistinctParties ==
    [][(/\ last'.op = "Transfer"
        /\ last'.from = last'.to)
       => /\ last'.status = SameAccount
          /\ StateUnchanged]_vars

C9_Witness ==
    /\ last.op = "Transfer"
    /\ last.from = last.to
    /\ last.status = SameAccount
    /\ last.amount = 0
    /\ ~Registered(last.from)

\* C10: Transfer(A, B, 0) with A # B fails with InvalidAmount and changes
\* no state, whether or not A and B are registered; RewardTransfer(R, 0,
\* memo) by the owner fails with InvalidAmount and changes no state.
C10_PositiveAmount ==
    [][(/\ last'.amount = 0
        /\ \/ last'.op = "Transfer" /\ last'.from # last'.to
           \/ last'.op = "RewardTransfer" /\ last'.caller = owner_id)
       => /\ last'.status = InvalidAmount
          /\ StateUnchanged]_vars

C10_Witness ==
    /\ last.op = "Transfer"
    /\ last.from # last.to
    /\ last.amount = 0
    /\ last.status = InvalidAmount
    /\ Registered(last.from)
    /\ Registered(last.to)

\* C11: Mint(a) by the owner with total_supply + a above the largest value
\* of the balance type fails with SupplyOverflow; after the abort
\* total_supply and every balance, the owner's included, are unchanged, and
\* total_supply never wraps around.
C11_SupplyOverflow ==
    [][(/\ last'.op = "Mint"
        /\ last'.caller = owner_id
        /\ total_supply + last'.amount > MaxBalance)
       => /\ last'.status = SupplyOverflow
          /\ StateUnchanged
          /\ total_supply' <= MaxBalance]_vars

C11_Witness ==
    /\ last.op = "Mint"
    /\ last.caller = owner_id
    /\ last.status = SupplyOverflow
    /\ total_supply > 0
    /\ total_supply + last.amount = MaxBalance + 1

\* C12: right after construction with owner O and supply S, total_supply
\* is S, O is the only account with an entry (the probe account inserted
\* during construction is gone), balance(O) is S, and balance_of is 0 for
\* every other account.
C12_InitialState ==
    last.op = "new" =>
        /\ owner_id = last.to
        /\ ft_total_supply = last.amount
        /\ DOMAIN accounts = {owner_id}
        /\ TmpAccountId \notin DOMAIN accounts
        /\ accounts[owner_id] = last.amount
        /\ ft_balance_of(owner_id) = last.amount
        /\ \A a \in (AccountIds \cup {TmpAccountId}) \ {owner_id} :
              ft_balance_of(a) = 0

C12_Witness ==
    /\ last.op = "new"
    /\ total_supply = MaxBalance
    /\ accounts[owner_id] = MaxBalance

\* C13: for registered A # B and an amount a > 0 with 2a <= balance(A),
\* Transfer(A, B, a) made twice in a row succeeds both times and leaves
\* balance(A) lower by 2a, balance(B) higher by 2a and total_supply
\* unchanged: the second call is not a no-op.
C13_TransferTwice ==
    (/\ last.op = "Transfer"
     /\ first # NoLedger
     /\ last.from # last.to
     /\ last.from \in DOMAIN first.accounts
     /\ last.to \in DOMAIN first.accounts
     /\ last.amount > 0
     /\ 2 * last.amount <= first.accounts[last.from])
    => /\ last.status = OK
       /\ before.accounts[last.from] = first.accounts[last.from] - last.amount
       /\ before.accounts[last.to] = first.accounts[last.to] + last.amount
       /\ accounts[last.from] = first.accounts[last.from] - 2 * last.amount
       /\ accounts[last.to] = first.accounts[last.to] + 2 * last.amount
       /\ accounts # before.accounts
       /\ total_supply = first.total_supply

C13_Witness ==
    /\ last.op = "Transfer"
    /\ last.status = OK
    /\ first # NoLedger
    /\ last.amount > 0
    /\ first.accounts[last.from] = accounts[last.from] + 2 * last.amount

\* C14: total_supply is changed by Mint only: every Transfer,
\* RewardTransfer, Deposit and Withdraw call, completed or aborted, and
\* every aborted Mint leaves total_supply as it was before the call.
C14_SupplyOnlyByMint ==
    [][(\/ last'.op \in {"Transfer", "RewardTransfer", "Deposit", "Withdraw"}
        \/ last'.op = "Mint" /\ last'.status # OK)
       => total_supply' = total_supply]_vars

\* A completed Withdraw changed a balance and left the supply.
C14_Witness ==
    /\ last.op = "Withdraw"
    /\ last.status = OK
    /\ last.amount > 0
    /\ total_supply >= last.amount
    /\ before.total_supply = total_supply
    /\ before.accounts # accounts

\* The guards on the caller and the arguments of a call, and the guards of
\* the leg that writes a key.
CallGuards == {NotOwner, SameAccount, InvalidAmount}

LegGuards(key) ==
    IF key = TOTAL_SUPPLY THEN {SupplyOverflow}
    ELSE {BalanceOverflow, InsufficientBalance}

\* The events of a completed Transfer or RewardTransfer from a to b, and of
\* a completed Mint, in their order.
TransferLegs(a, b) ==
    <<Guard(UnregisteredAccount), Guard(InsufficientBalance), Write(a),
      Guard(UnregisteredAccount), Guard(BalanceOverflow), Write(b)>>

MintLegs ==
    <<Guard(SupplyOverflow), Write(TOTAL_SUPPLY),
      Guard(UnregisteredAccount), Guard(BalanceOverflow), Write(owner_id)>>

\* C15 as stated: within one Transfer, RewardTransfer or Mint call no write
\* to the store or to total_supply is made before every guard of the call
\* has been evaluated and passed: no write is followed by a guard.
C15_NoWriteBeforeGuards ==
    last.op \in {"Transfer", "RewardTransfer", "Mint"} =>
        \A i \in 1..Len(last.log) : \A j \in 1..Len(last.log) :
            (i < j /\ last.log[i].ev = "write") => last.log[j].ev # "guard"

\* C15 as amended: the guards on the caller and the arguments pass before
\* any write and every write comes right after the guards of its own leg,
\* but the debit is written before the credit guards are evaluated and
\* total_supply before the owner-credit guards; when a guard fails the
\* call panics and none of its writes is persisted.
C15_WritesDiscardedOnLateGuard ==
    last.op \in {"Transfer", "RewardTransfer", "Mint"} =>
        /\ \A i \in 1..Len(last.log) : \A j \in 1..Len(last.log) :
              (i < j /\ last.log[i].ev = "write")
                 => ~(last.log[j].ev = "guard" /\ last.log[j].of \in CallGuards)
        /\ \A i \in 1..Len(last.log) :
              last.log[i].ev = "write"
                 => /\ i > 1
                    /\ last.log[i - 1].ev = "guard"
                    /\ last.log[i - 1].of \in LegGuards(last.log[i].of)
        /\ last.status = OK =>
              last.log =
                 CASE last.op = "Transfer" ->
                        <<Guard(SameAccount), Guard(InvalidAmount)>>
                           \o TransferLegs(last.from, last.to)
                   [] last.op = "RewardTransfer" ->
                        <<Guard(NotOwner), Guard(InvalidAmount)>>
                           \o TransferLegs(owner_id, last.to)
                   [] last.op = "Mint" -> <<Guard(NotOwner)>> \o MintLegs
        /\ last.status # OK => Ledger = before

\* The receiver's guard failed after the sender's balance had been written,
\* and the ledger is the one the call started from.
C15_Witness ==
    /\ last.op \in {"Transfer", "RewardTransfer"}
    /\ last.status = UnregisteredAccount
    /\ Len(last.log) = 6
    /\ last.log[5].ev = "write"
    /\ last.log[6] = Guard(UnregisteredAccount)
    /\ Ledger = before
    /\ total_supply > 0

\* C16: for a registered account A and an amount a with balance(A) + a
\* above the largest value of the balance type, Deposit(A, a) fails with
\* BalanceOverflow and leaves the store unmodified; no balance ever wraps
\* around.
C16_CreditOverflow ==
    [][((/\ last'.op = "Deposit"
         /\ Registered(last'.to)
         /\ accounts[last'.to] + last'.amount > MaxBalance)
       => /\ last'.status = BalanceOverflow
          /\ StateUnchanged
          /\ accounts'[last'.to] = accounts[last'.to])
      /\ (last'.op = "Deposit" /\ Registered(last'.to)
             => accounts'[last'.to] >= accounts[last'.to])
      /\ \A a \in DOMAIN accounts' : accounts'[a] <= MaxBalance]_vars

C16_Witness ==
    /\ last.op = "Deposit"
    /\ last.status = BalanceOverflow
    /\ accounts[last.to] > 0
    /\ accounts[last.to] + last.amount = MaxBalance + 1

\* C17: the set of accounts with an entry is unchanged by every Deposit,
\* Withdraw, Transfer, Mint and RewardTransfer call, completed or aborted:
\* the calls overwrite the value of an existing entry and never create or
\* delete one, and a balance that reaches 0 keeps its entry.
C17_EntriesUnchanged ==
    [][last'.op \in {"Deposit", "Withdraw", "Transfer", "Mint", "RewardTransfer"}
       => DOMAIN accounts' = DOMAIN accounts]_vars

\* A debit took a balance to 0 and the entry is still there.
C17_Witness ==
    /\ last.op \in {"Withdraw", "Transfer"}
    /\ last.status = OK
    /\ last.amount > 0
    /\ Registered(last.from)
    /\ accounts[last.from] = 0
    /\ DOMAIN before.accounts = DOMAIN accounts

\* C18: BalanceOverflow cannot be reached through Mint, Transfer and
\* RewardTransfer: in every state reached from construction each balance
\* is at most total_supply, so no credit leg overflows and no call ends
\* with BalanceOverflow; SupplyOverflow is the only overflow error.
C18_BalanceOverflowUnreachable ==
    /\ \A a \in DOMAIN accounts : accounts[a] <= total_supply
    /\ last.status # BalanceOverflow
    /\ (last.op = "Mint" /\ last.caller = owner_id)
          => last.status \in {OK, SupplyOverflow}

\* A credit filled an account up to the largest balance.
C18_Witness ==
    /\ last.op \in {"Transfer", "RewardTransfer", "Mint"}
    /\ last.status = OK
    /\ last.amount > 0
    /\ \E a \in DOMAIN accounts :
          /\ accounts[a] = MaxBalance
          /\ before.accounts[a] < MaxBalance

\* C19: RewardTransfer has no distinct-parties guard: RewardTransfer(owner,
\* a, memo) by the owner with 0 < a <= balance(owner) does not fail with
\* SameAccount; it completes, debits and credits the owner, and every
\* balance and total_supply end as they started.
C19_RewardToOwner ==
    [][(/\ last'.op = "RewardTransfer"
        /\ last'.caller = owner_id
        /\ last'.to = owner_id
        /\ 0 < last'.amount
        /\ last'.amount <= accounts[owner_id])
       => /\ last'.status = OK
          /\ last'.log = <<Guard(NotOwner), Guard(InvalidAmount)>>
                            \o TransferLegs(owner_id, owner_id)
          /\ StateUnchanged]_vars

C19_Witness ==
    /\ last.op = "RewardTransfer"
    /\ last.to = owner_id
    /\ last.status = OK
    /\ last.amount = accounts[owner_id]
    /\ last.amount > 0
    /\ Ledger = before

\* C20: a completed Transfer(A, B, a) changes no balance but those of A and
\* B, a completed RewardTransfer(R, a, memo) none but those of the owner
\* and R, a completed Mint(a) none but the owner's; no call changes the
\* owner identity.
C20_Frame ==
    [][/\ owner_id' = owner_id
       /\ last'.status = OK =>
            LET touched ==
                  CASE last'.op = "Transfer" -> {last'.from, last'.to}
                    [] last'.op = "RewardTransfer" -> {owner_id, last'.to}
                    [] last'.op = "Mint" -> {owner_id}
                    [] OTHER -> AccountIds
            IN \A a \in (DOMAIN accounts) \ touched :
                  a \in DOMAIN accounts' /\ accounts'[a] = accounts[a]]_vars

\* A transfer completed while a third account held a balance.
C20_Witness ==
    /\ last.op \in {"Transfer", "RewardTransfer"}
    /\ last.status = OK
    /\ last.amount > 0
    /\ \E a \in DOMAIN accounts :
          /\ a \notin {last.from, last.to, owner_id}
          /\ accounts[a] > 0

====
